---- MODULE Spec2Model ----
(***************************************************************************)
(* Model of config_tracker.py: FolderWatcher (bounded per-path snapshot    *)
(* history, change detection in _handle_event, the side-by-side diff of    *)
(* print_diff built on difflib.ndiff).                                     *)
(*                                                                         *)
(* A text is a sequence of one-character strings.  Indices into Python     *)
(* sequences are kept 0-based as in the source; Slice(s, lo, hi) is the    *)
(* Python slice s[lo:hi].                                                  *)
(***************************************************************************)
EXTENDS Integers, Sequences, FiniteSets, TLC

\* ------------------------------------------------------------------ bounds
MaxHistory == 1      \* history is drawn from 0..MaxHistory
MaxEvents  == 3      \* events delivered to the watcher in one behaviour
MaxLines   == 3      \* lines per text handed to print_diff in SpecDiff
MaxRaw     == 2      \* length of the raw character texts in SpecDiff

\* ----------------------------------------------------------- small helpers
Max(S) == CHOOSE x \in S : \A y \in S : y <= x
Min(S) == CHOOSE x \in S : \A y \in S : x <= y
Slice(s, lo, hi) == SubSeq(s, lo + 1, hi)
Last(s) == s[Len(s)]
Repeat(c, n) == [x \in 1..n |-> c]

\* ---------------------------------------------------------- str.splitlines
\* The line boundaries of str.splitlines(): \n \r \v \f \x1c \x1d \x1e \x85
\*     (and \r\n as one boundary).  Characters TLA+ has no escape
\* for are written as named one-element tokens.
LineBoundaries ==
    {"\n", "\r", "\f", "VT", "FS", "GS", "RS", "NEL", "LS", "PS"}

RECURSIVE SplitFrom(_, _, _, _)
SplitFrom(s, i, cur, acc) ==
    IF i > Len(s)
    THEN IF cur = <<>> THEN acc ELSE Append(acc, cur)
    ELSE IF s[i] \in LineBoundaries
         THEN IF s[i] = "\r" /\ i < Len(s) /\ s[i + 1] = "\n"
              THEN SplitFrom(s, i + 2, <<>>, Append(acc, cur))
              ELSE SplitFrom(s, i + 1, <<>>, Append(acc, cur))
         ELSE SplitFrom(s, i + 1, Append(cur, s[i]), acc)

\* old.splitlines(): the lines without their terminators; no final empty
\* line after a trailing terminator.
splitlines(s) == SplitFrom(s, 1, <<>>, <<>>)

\* "\n".join(lines)
RECURSIVE JoinNL(_)
JoinNL(ls) ==
    IF ls = <<>> THEN <<>>
    ELSE IF Len(ls) = 1 THEN ls[1]
    ELSE ls[1] \o <<"\n">> \o JoinNL(Tail(ls))

\* ------------------------------------------- difflib.SequenceMatcher (core)
\* Sequences here are shorter than 200 elements, so the autojunk heuristic
\* of SequenceMatcher never applies; junk is the set of junk elements of b.
RECURSIVE RunLen(_, _, _, _, _)
RunLen(a, b, junk, i, j) ==
    IF i < Len(a) /\ j < Len(b) /\ a[i + 1] = b[j + 1] /\ b[j + 1] \notin junk
    THEN 1 + RunLen(a, b, junk, i + 1, j + 1)
    ELSE 0

\* First loop of find_longest_match: the longest block of equal non-junk
\* elements; of those the one starting earliest in a, then earliest in b.
LongestRun(a, b, junk) ==
    LET runs == {<<i, j, RunLen(a, b, junk, i, j)>> :
                    i \in 0..(Len(a) - 1), j \in 0..(Len(b) - 1)}
        pos  == {r \in runs : r[3] > 0}
    IN  IF pos = {} THEN <<0, 0, 0>>
        ELSE LET k == Max({r[3] : r \in pos})
                 i == Min({r[1] : r \in {q \in pos : q[3] = k}})
                 j == Min({r[2] : r \in {q \in pos : q[3] = k /\ q[1] = i}})
             IN  <<i, j, k>>

RECURSIVE ExtendBack(_, _, _, _, _)
ExtendBack(a, b, junk, m, wantJunk) ==
    IF /\ m[1] > 0 /\ m[2] > 0
       /\ (b[m[2]] \in junk) = wantJunk
       /\ a[m[1]] = b[m[2]]
    THEN ExtendBack(a, b, junk, <<m[1] - 1, m[2] - 1, m[3] + 1>>, wantJunk)
    ELSE m

RECURSIVE ExtendFwd(_, _, _, _, _)
ExtendFwd(a, b, junk, m, wantJunk) ==
    IF /\ m[1] + m[3] < Len(a) /\ m[2] + m[3] < Len(b)
       /\ (b[m[2] + m[3] + 1] \in junk) = wantJunk
       /\ a[m[1] + m[3] + 1] = b[m[2] + m[3] + 1]
    THEN ExtendFwd(a, b, junk, <<m[1], m[2], m[3] + 1>>, wantJunk)
    ELSE m

\* SequenceMatcher.find_longest_match over the whole of a and b: <<i, j, k>>
\* with a[i:i+k] = b[j:j+k].
find_longest_match(a, b, junk) ==
    LET m0 == LongestRun(a, b, junk)
        m1 == ExtendFwd(a, b, junk, ExtendBack(a, b, junk, m0, FALSE), FALSE)
    IN  ExtendFwd(a, b, junk, ExtendBack(a, b, junk, m1, TRUE), TRUE)

\* Sum of the sizes of get_matching_blocks(): the longest match, then the
\* same to its left and to its right.
RECURSIVE matches(_, _, _)
matches(a, b, junk) ==
    LET m == find_longest_match(a, b, junk)
        i == m[1]
        j == m[2]
        k == m[3]
    IN  IF k = 0 THEN 0
        ELSE k
             + (IF 0 < i /\ 0 < j
                THEN matches(Slice(a, 0, i), Slice(b, 0, j), junk) ELSE 0)
             + (IF i + k < Len(a) /\ j + k < Len(b)
                THEN matches(Slice(a, i + k, Len(a)), Slice(b, j + k, Len(b)), junk)
                ELSE 0)

\* The intraline tag strings built from get_opcodes() in _fancy_replace:
\* <<atags, btags>>.
RECURSIVE tags(_, _, _)
tags(a, b, junk) ==
    LET m == find_longest_match(a, b, junk)
        i == m[1]
        j == m[2]
        k == m[3]
    IN  IF k = 0
        THEN IF a # <<>> /\ b # <<>>
             THEN <<Repeat("^", Len(a)), Repeat("^", Len(b))>>
             ELSE <<Repeat("-", Len(a)), Repeat("+", Len(b))>>
        ELSE LET l == tags(Slice(a, 0, i), Slice(b, 0, j), junk)
                 r == tags(Slice(a, i + k, Len(a)), Slice(b, j + k, Len(b)), junk)
             IN  <<l[1] \o Repeat(" ", k) \o r[1],
                   l[2] \o Repeat(" ", k) \o r[2]>>

\* ------------------------------------------------------------ difflib.Differ
\* IS_CHARACTER_JUNK: blanks and tabs are junk for the intraline comparison.
CharJunk == {" ", "\t"}
Whitespace == {" ", "\t"}

\* _keep_original_ws(s, tag_s)
keep_original_ws(s, tag_s) ==
    [x \in 1..Min({Len(s), Len(tag_s)}) |->
        IF tag_s[x] = " " /\ s[x] \in Whitespace THEN s[x] ELSE tag_s[x]]

RECURSIVE rstrip(_)
rstrip(s) ==
    IF s # <<>> /\ Last(s) \in Whitespace
    THEN rstrip(SubSeq(s, 1, Len(s) - 1))
    ELSE s

\* Differ._dump(tag, x, lo, hi) over the whole of x: one "<tag> <line>" each.
dump(tag, x) == [n \in 1..Len(x) |-> <<tag, " ">> \o x[n]]

\* Differ._qformat: the "- " line, its "? " hint if any, the "+ " line, its
\* "? " hint if any.
qformat(aline, bline, atags, btags) ==
    LET at == rstrip(keep_original_ws(aline, atags))
        bt == rstrip(keep_original_ws(bline, btags))
    IN  <<(<<"-", " ">> \o aline)>>
        \o (IF at # <<>> THEN <<(<<"?", " ">> \o at \o <<"\n">>)>> ELSE <<>>)
        \o <<(<<"+", " ">> \o bline)>>
        \o (IF bt # <<>> THEN <<(<<"?", " ">> \o bt \o <<"\n">>)>> ELSE <<>>)

\* Variant of plain_replace: the added block always comes first.
plain_replace_added_first(a, b) == dump("+", b) \o dump("-", a)

\* Differ._plain_replace: the shorter block is dumped first.
plain_replace(a, b) ==
    IF Len(b) < Len(a)
    THEN dump("+", b) \o dump("-", a)
    ELSE dump("-", a) \o dump("+", b)

\* The search loops of _fancy_replace (b's lines are the outer loop).
\* ratio() of a pair of lines is 2*M/T, M the matched characters and T the two
\* lengths together; ratios are compared as fractions.
Pairs(a, b) == {<<j, i>> : j \in 0..(Len(b) - 1), i \in 0..(Len(a) - 1)}
EqualPairs(a, b) == {p \in Pairs(a, b) : a[p[2] + 1] = b[p[1] + 1]}
LoopBefore(p, q) == p[1] < q[1] \/ (p[1] = q[1] /\ p[2] < q[2])
FirstPair(S) == CHOOSE p \in S : \A q \in S \ {p} : LoopBefore(p, q)

\* M and T of every pair of lines: <<M, T>>.
RatioTable(a, b) ==
    [p \in Pairs(a, b) |->
        <<matches(a[p[2] + 1], b[p[1] + 1], CharJunk),
          Len(a[p[2] + 1]) + Len(b[p[1] + 1])>>]

\* A pair replaces the best so far only if its ratio is strictly greater; the
\* best starts at 0.74.
BestPair(cand, r) ==
    CHOOSE p \in cand : \A q \in cand \ {p} :
        \/ r[q][1] * r[p][2] < r[p][1] * r[q][2]
        \/ (r[q][1] * r[p][2] = r[p][1] * r[q][2] /\ LoopBefore(p, q))

\* The synch point chosen for the blocks: a close pair (ratio at least the
\* cutoff 0.75), else the first identical pair, else none.
Synch(eqs, cand, r) ==
    IF cand # {} /\ 100 * 2 * r[BestPair(cand, r)][1] >= 75 * r[BestPair(cand, r)][2]
    THEN [kind |-> "close", pair |-> BestPair(cand, r)]
    ELSE IF eqs # {}
         THEN [kind |-> "equal", pair |-> FirstPair(eqs)]
         ELSE [kind |-> "none", pair |-> <<0, 0>>]

SynchPoint(a, b, r) ==
    Synch(EqualPairs(a, b),
          {p \in Pairs(a, b) \ EqualPairs(a, b) : 100 * 2 * r[p][1] > 74 * r[p][2]},
          r)

\* The lines of the synch pair: the "-", "?", "+", "?" quad, or the one
\* context line if the pair is identical.
SynchLines(aelt, belt, kind, tg) ==
    IF kind = "close"
    THEN qformat(aelt, belt, tg[1], tg[2])
    ELSE <<(<<" ", " ">> \o aelt)>>

RECURSIVE fancy_replace(_, _)
RECURSIVE fancy_helper(_, _)
RECURSIVE FancyEmit(_, _, _, _, _)

\* The tail of _fancy_replace once the synch point is known.
FancyEmit(a, b, kind, best_i, best_j) ==
    IF kind = "none"
    THEN plain_replace(a, b)
    ELSE fancy_helper(Slice(a, 0, best_i), Slice(b, 0, best_j))
         \o SynchLines(a[best_i + 1], b[best_j + 1], kind,
                       tags(a[best_i + 1], b[best_j + 1], CharJunk))
         \o fancy_helper(Slice(a, best_i + 1, Len(a)),
                         Slice(b, best_j + 1, Len(b)))

FancySynch(a, b, s) == FancyEmit(a, b, s.kind, s.pair[2], s.pair[1])

\* Differ._fancy_replace on the blocks a and b.
fancy_replace(a, b) == FancySynch(a, b, SynchPoint(a, b, RatioTable(a, b)))

\* Differ._fancy_helper
fancy_helper(a, b) ==
    IF a # <<>>
    THEN IF b # <<>> THEN fancy_replace(a, b) ELSE dump("-", a)
    ELSE IF b # <<>> THEN dump("+", b) ELSE <<>>

\* Differ.compare over get_opcodes(): between two matching blocks the gap is
\* a replace (both sides non-empty), a delete or an insert; a matching block
\* is dumped as context.  Lines have no junk (linejunk=None).
RECURSIVE compare(_, _)
compare(a, b) ==
    LET m == find_longest_match(a, b, {})
        i == m[1]
        j == m[2]
        k == m[3]
    IN  IF k = 0
        THEN IF a # <<>> /\ b # <<>> THEN fancy_replace(a, b)
             ELSE IF a # <<>> THEN dump("-", a)
             ELSE IF b # <<>> THEN dump("+", b)
             ELSE <<>>
        ELSE compare(Slice(a, 0, i), Slice(b, 0, j))
             \o dump(" ", Slice(a, i, i + k))
             \o compare(Slice(a, i + k, Len(a)), Slice(b, j + k, Len(b)))

ndiff(a, b) == compare(a, b)

\* ------------------------------------------------- FolderWatcher.print_diff
Code(line) == SubSeq(line, 1, 2)
TextOf(line) == SubSeq(line, 3, Len(line))

\* Variant of LeftOf: the branch that skips "? " lines is missing, so they
\* fall through to the context branch.
RECURSIVE LeftOfKeepHints(_)
LeftOfKeepHints(diff) ==
    IF diff = <<>> THEN <<>>
    ELSE LET line == Head(diff)
             rest == LeftOfKeepHints(Tail(diff))
         IN  IF Code(line) = <<"-", " ">> THEN <<(<<"-", " ">> \o TextOf(line))>> \o rest
             ELSE IF Code(line) = <<"+", " ">> THEN rest
             ELSE <<(<<" ", " ">> \o TextOf(line))>> \o rest

RECURSIVE LeftOf(_)
LeftOf(diff) ==
    IF diff = <<>> THEN <<>>
    ELSE LET line == Head(diff)
             rest == LeftOf(Tail(diff))
         IN  IF Code(line) = <<"-", " ">> THEN <<(<<"-", " ">> \o TextOf(line))>> \o rest
             ELSE IF Code(line) = <<"+", " ">> THEN rest
             ELSE IF Code(line) = <<"?", " ">> THEN rest
             ELSE <<(<<" ", " ">> \o TextOf(line))>> \o rest

RECURSIVE RightOf(_)
RightOf(diff) ==
    IF diff = <<>> THEN <<>>
    ELSE LET line == Head(diff)
             rest == RightOf(Tail(diff))
         IN  IF Code(line) = <<"-", " ">> THEN rest
             ELSE IF Code(line) = <<"+", " ">> THEN <<(<<"+", " ">> \o TextOf(line))>> \o rest
             ELSE IF Code(line) = <<"?", " ">> THEN rest
             ELSE <<(<<" ", " ">> \o TextOf(line))>> \o rest

\* Variant of print_diff_lines: the two texts are handed to ndiff in the
\* wrong order.
print_diff_lines_swapped(old, new) == ndiff(splitlines(new), splitlines(old))

\* Lines 64-72: the branch of the loop a diff line takes, decided by its
\* first two characters; a "meta" line is skipped by the continue of line 71.
Kind(line) ==
    IF Code(line) = <<"-", " ">> THEN "removed"
    ELSE IF Code(line) = <<"+", " ">> THEN "added"
    ELSE IF Code(line) = <<"?", " ">> THEN "meta"
    ELSE "context"

\* Lines 57-59: the list diff.
print_diff_lines(old, new) == ndiff(splitlines(old), splitlines(new))

\* print_diff(path, old, new): the list diff of line 59 and the plain lines
\* of the Before and After columns.
print_diff(path, old, new) ==
    LET diff == print_diff_lines(old, new)
    IN  [path |-> path, old |-> old, new |-> new,
         diff |-> diff, left |-> LeftOf(diff), right |-> RightOf(diff)]

\* ------------------------------------------------------------ the watcher
\* Command-line arguments of main (two files of one directory, hence one
\* FolderWatcher), and the paths events can carry.
Args == <<"/d/f1", "/d/./f2">>
RawPaths == {"/d/f1", "/d/./f2", "/d/f3"}

\* Path.resolve(): the canonical absolute path.
resolve(p) == IF p = "/d/./f2" THEN "/d/f2" ELSE p

Files == {resolve(Args[n]) : n \in 1..Len(Args)}

\* Contents a tracked file can have, and the messages a failed read can carry.
Hello == <<"h", "e", "l", "l", "o">>
FileTexts == {<<>>, Hello, <<"a", "\n">>}
Causes == {<<"E", "1">>}

\* What one read of a file finds.
ReadResults ==
    [kind : {"ok"}, text : FileTexts] \cup [kind : {"fail"}, cause : Causes]
\* What __init__ finds at a path: no file, a readable file, or a file that
\* exists and whose read raises.
FsStates == {[kind |-> "missing"]} \cup ReadResults

\* f"[error reading file: {e}]"
Placeholder(e) ==
    <<"[", "e", "r", "r", "o", "r", " ", "r", "e", "a", "d", "i", "n", "g", " ",
      "f", "i", "l", "e", ":", " ">> \o e \o <<"]">>

VARIABLES
    pc,             \* "new", "watching", or "crashed" (an exception left __init__)
    history,        \* the history argument of FolderWatcher
    startup,        \* the state of each tracked file when __init__ runs
    files_to_track, \* resolved path -> deque of snapshots, newest last
    emitted,        \* the print_diff calls made so far, in order
    nreads,         \* number of read_text calls made so far
    nevents,        \* number of events delivered so far
    ev,             \* the event delivered last
    reads,          \* per path, the results of its handled reads, in order
    dpc, dold, dnew, dout,  \* SpecDiff: one call of print_diff
    history2,        \* SpecPair: the history argument of a second watcher
    files_to_track2, \* SpecPair: the deques of the second watcher
    emitted2,        \* SpecPair: the print_diff calls of the second watcher
    mpc,        \* SpecThreads: position of the main thread in main()
    opc,        \* SpecThreads: position of the observer thread in its loop
    queue,      \* SpecThreads: the event queue of the observer
    stopped,    \* SpecThreads: the stop flag of the observer thread
    handlers,   \* SpecThreads: the watcher is scheduled and its emitter runs
    hpc,        \* SpecThreads: position of each running _handle_event
    hcur,       \* SpecThreads: its event
    hold,       \* SpecThreads: its local old
    hnew,       \* SpecThreads: its local new
    serial      \* SpecThreads: the events handled one at a time, in read order

vars == <<pc, history, startup, files_to_track, emitted, nreads, nevents, ev,
          reads, dpc, dold, dnew, dout, history2, files_to_track2, emitted2,
          mpc, opc, queue, stopped, handlers, hpc, hcur, hold, hnew, serial>>
watcherVars == <<pc, history, startup, files_to_track, emitted, nreads,
                 nevents, ev, reads>>
diffVars == <<dpc, dold, dnew, dout>>
pairVars == <<history2, files_to_track2, emitted2>>
threadVars == <<mpc, opc, queue, stopped, handlers, hpc, hcur, hold, hnew,
                serial>>

\* The values of the variables of a specification that is not running.
PairOff == history2 = 0 /\ files_to_track2 = <<>> /\ emitted2 = <<>>
ThreadsOff ==
    /\ mpc = "off" /\ opc = "off" /\ queue = <<>>
    /\ stopped = FALSE /\ handlers = FALSE
    /\ hpc = <<>> /\ hcur = <<>> /\ hold = <<>> /\ hnew = <<>>
    /\ serial = <<>>

NoEvent == [src_path |-> "", is_directory |-> FALSE]

\* Variants of deque_append: one that never evicts, one that evicts the
\* newest stored element instead of the oldest.
deque_append_unbounded(d, x, maxlen) == Append(d, x)
deque_append_keep_oldest(d, x, maxlen) ==
    IF Len(d) >= maxlen THEN SubSeq(d, 1, maxlen - 1) \o <<x>> ELSE Append(d, x)

\* Variant of deque_append: appendleft, the new element goes to the front
\* and the element at the back is dropped when full.
deque_append_left(d, x, maxlen) ==
    LET e == <<x>> \o d
    IN  IF Len(e) > maxlen THEN SubSeq(e, 1, maxlen) ELSE e

\* deque(maxlen=...).append(x): the oldest element is dropped when full.
deque_append(d, x, maxlen) ==
    LET e == Append(d, x)
    IN  IF Len(e) > maxlen THEN SubSeq(e, Len(e) - maxlen + 1, Len(e)) ELSE e

\* Variant of seed_content: a missing file seeded like a failed read.
seed_content_as_error(st) ==
    IF st.kind = "missing" THEN Placeholder(<<"E", "1">>) ELSE st.text

\* Lines 28-31: the seed snapshot of a path.
seed_content(st) == IF st.kind = "missing" THEN <<>> ELSE st.text

\* Variant of read_content: a failed read yields the empty text.
read_content_swallow(res) == IF res.kind = "ok" THEN res.text ELSE <<>>

\* Lines 47-50: the content a read yields, the placeholder if it raised.
read_content(res) ==
    IF res.kind = "ok" THEN res.text ELSE Placeholder(res.cause)

\* Variant of last_snapshot: the oldest stored snapshot.
oldest_snapshot(d) == IF d # <<>> THEN d[1] ELSE <<>>

\* Variant of last_snapshot: the deque is never looked at.
no_snapshot(d) == <<>>

\* Line 46: the last snapshot of a deque, "" if it is empty.
last_snapshot(d) == IF d # <<>> THEN Last(d) ELSE <<>>

\* Variant of changed: every read counts as a change.
changed_always(new, old) == TRUE

\* Line 52
changed(new, old) == new # old

\* Variant of ignored: the is-directory flag is not looked at.
ignored_untracked_only(event) ==
    resolve(event.src_path) \notin DOMAIN files_to_track

\* Lines 40-44: the events _handle_event returns from without reading.
ignored(event) ==
    \/ event.is_directory
    \/ resolve(event.src_path) \notin DOMAIN files_to_track

\* Variant of record: the append of line 53 is missing.
record_none(ftt, path, new) == ftt

\* Variant of record: the snapshot is appended to every tracked path.
record_all(ftt, path, new) ==
    [p \in DOMAIN ftt |-> deque_append(ftt[p], new, history + 1)]

\* Line 53
record(ftt, path, new) ==
    [ftt EXCEPT ![path] = deque_append(@, new, history + 1)]

\* Index in Args of the first file whose seeding read raises, 0 if none.
FirstFailure ==
    LET bad == {n \in 1..Len(Args) : startup[resolve(Args[n])].kind = "fail"}
    IN  IF bad = {} THEN 0 ELSE Min(bad)

\* FolderWatcher.__init__: every path gets a deque of maxlen history+1 and
\* one seed snapshot; read_text is not guarded, an exception leaves __init__.
FolderWatcherInit ==
    /\ pc = "new"
    /\ LET reached == IF FirstFailure = 0 THEN 1..Len(Args) ELSE 1..FirstFailure
       IN  nreads' = nreads + Cardinality(
               {resolve(Args[n]) : n \in {m \in reached :
                                       startup[resolve(Args[m])].kind # "missing"}})
    /\ IF FirstFailure = 0
       THEN /\ pc' = "watching"
            /\ files_to_track' =
                 [p \in Files |-> deque_append(<<>>, seed_content(startup[p]),
                                               history + 1)]
       ELSE /\ pc' = "crashed"
            /\ files_to_track' = files_to_track
    /\ UNCHANGED <<history, startup, emitted, nevents, ev, reads>>
    /\ UNCHANGED diffVars
    /\ UNCHANGED pairVars
    /\ UNCHANGED threadVars

\* FolderWatcher._handle_event(event); res is what read_text finds if the
\* file is read.
handle_event(event, res) ==
    IF ignored(event)
    THEN UNCHANGED <<files_to_track, emitted, nreads, reads>>
    ELSE LET path == resolve(event.src_path)
             old  == last_snapshot(files_to_track[path])
             new  == read_content(res)
         IN  /\ nreads' = nreads + 1
             /\ reads' = [reads EXCEPT ![path] = Append(@, res)]
             /\ IF changed(new, old)
                THEN /\ files_to_track' = record(files_to_track, path, new)
                     /\ emitted' = Append(emitted, print_diff(path, old, new))
                ELSE UNCHANGED <<files_to_track, emitted>>

Deliver(event, res) ==
    /\ nevents < MaxEvents
    /\ nevents' = nevents + 1
    /\ ev' = event
    /\ handle_event(event, res)
    /\ UNCHANGED <<pc, history, startup>>
    /\ UNCHANGED diffVars
    /\ UNCHANGED pairVars
    /\ UNCHANGED threadVars

Events == [src_path : RawPaths, is_directory : BOOLEAN]

\* FolderWatcher.on_modified
on_modified ==
    \E event \in Events, res \in ReadResults :
        /\ pc = "watching"
        /\ Deliver(event, res)

\* FolderWatcher.on_created
on_created ==
    \E event \in Events, res \in ReadResults :
        /\ pc = "watching"
        /\ Deliver(event, res)

Init ==
    /\ pc = "new"
    /\ history \in 0..MaxHistory
    /\ startup \in [Files -> FsStates]
    /\ files_to_track = <<>>
    /\ emitted = <<>>
    /\ nreads = 0
    /\ nevents = 0
    /\ ev = NoEvent
    /\ reads = [p \in Files |-> <<>>]
    /\ dpc = "off" /\ dold = <<>> /\ dnew = <<>> /\ dout = <<>>
    /\ PairOff
    /\ ThreadsOff

Next == FolderWatcherInit \/ on_modified \/ on_created

Spec == Init /\ [][Next]_vars

\* --------------------------------------------------- print_diff on its own
DiffLineSet == {<<"a">>, <<"a", "b", "c", "d">>, <<"a", "b", "c", "x">>}
RawAlphabet == {"a", "\n", "\r"}

SeqsUpTo(S, n) == UNION {[1..m -> S] : m \in 0..n}

DiffTexts ==
    {JoinNL(ls) \o end : ls \in SeqsUpTo(DiffLineSet, MaxLines),
                         end \in {<<>>, <<"\n">>}}
    \cup SeqsUpTo(RawAlphabet, MaxRaw)

\* print_diff is only called from line 54, with new != old.
DiffInit ==
    /\ dpc = "call"
    /\ dold \in DiffTexts
    /\ dnew \in DiffTexts
    /\ dold # dnew
    /\ dout = <<>>
    /\ pc = "off" /\ history = 0 /\ startup = <<>> /\ files_to_track = <<>>
    /\ emitted = <<>> /\ nreads = 0 /\ nevents = 0 /\ ev = NoEvent
    /\ reads = <<>>
    /\ PairOff
    /\ ThreadsOff

PrintDiff ==
    /\ dpc = "call"
    /\ dpc' = "shown"
    /\ dout' = print_diff("/d/f1", dold, dnew)
    /\ UNCHANGED <<dold, dnew>>
    /\ UNCHANGED watcherVars
    /\ UNCHANGED pairVars
    /\ UNCHANGED threadVars

DiffNext == PrintDiff

SpecDiff == DiffInit /\ [][DiffNext]_vars

\* ------------------------------------------- two watchers, same events
\* A second FolderWatcher, constructed over the same files with another
\* history argument and handed every event and every read result that the
\* first one gets.
ignored2(event) ==
    \/ event.is_directory
    \/ resolve(event.src_path) \notin DOMAIN files_to_track2

record2(ftt, path, new) ==
    [ftt EXCEPT ![path] = deque_append(@, new, history2 + 1)]

handle_event2(event, res) ==
    IF ignored2(event)
    THEN UNCHANGED <<files_to_track2, emitted2>>
    ELSE LET path == resolve(event.src_path)
             old  == last_snapshot(files_to_track2[path])
             new  == read_content(res)
         IN  IF changed(new, old)
             THEN /\ files_to_track2' = record2(files_to_track2, path, new)
                  /\ emitted2' = Append(emitted2, print_diff(path, old, new))
             ELSE UNCHANGED <<files_to_track2, emitted2>>

\* Both constructors run on the same files in the same state.
FolderWatcherInitPair ==
    /\ pc = "new"
    /\ IF FirstFailure = 0
       THEN /\ pc' = "watching"
            /\ files_to_track' =
                 [p \in Files |-> deque_append(<<>>, seed_content(startup[p]),
                                               history + 1)]
            /\ files_to_track2' =
                 [p \in Files |-> deque_append(<<>>, seed_content(startup[p]),
                                               history2 + 1)]
       ELSE /\ pc' = "crashed"
            /\ UNCHANGED <<files_to_track, files_to_track2>>
    /\ UNCHANGED <<history, history2, startup, emitted, emitted2, nreads,
                   nevents, ev, reads>>
    /\ UNCHANGED diffVars
    /\ UNCHANGED threadVars

DeliverPair(event, res) ==
    /\ nevents < MaxEvents
    /\ nevents' = nevents + 1
    /\ ev' = event
    /\ handle_event(event, res)
    /\ handle_event2(event, res)
    /\ UNCHANGED <<pc, history, history2, startup>>
    /\ UNCHANGED diffVars
    /\ UNCHANGED threadVars

\* What a read finds while the two watchers run.
PairReads ==
    {[kind |-> "ok", text |-> <<>>], [kind |-> "ok", text |-> Hello],
     [kind |-> "fail", cause |-> <<"E", "1">>]}

on_modified_pair ==
    \E event \in Events, res \in PairReads :
        /\ pc = "watching"
        /\ DeliverPair(event, res)

on_created_pair ==
    \E event \in Events, res \in PairReads :
        /\ pc = "watching"
        /\ DeliverPair(event, res)

\* The two history arguments differ; the pair is unordered, so the smaller one
\* is given to the first watcher.
PairInit ==
    /\ pc = "new"
    /\ history \in 0..MaxHistory
    /\ history2 \in 0..MaxHistory
    /\ history < history2
    /\ startup \in [Files -> FsStates]
    /\ files_to_track = <<>> /\ files_to_track2 = <<>>
    /\ emitted = <<>> /\ emitted2 = <<>>
    /\ nreads = 0
    /\ nevents = 0
    /\ ev = NoEvent
    /\ reads = [p \in Files |-> <<>>]
    /\ dpc = "off" /\ dold = <<>> /\ dnew = <<>> /\ dout = <<>>
    /\ ThreadsOff

PairNext == FolderWatcherInitPair \/ on_modified_pair \/ on_created_pair

SpecPair == PairInit /\ [][PairNext]_vars

\* ------------------------------------------- main() and its two threads
\* main() builds the watcher with the default history (line 107 passes no
\* history argument, line 19), schedules it on one Observer and starts that
\* observer (lines 103-110). The observer is one thread that takes the queued
\* events one after the other and calls the handler for each; the main thread
\* sleeps in its loop until KeyboardInterrupt (lines 113-119).
DefaultHistory == 1
ThreadStartup == {[kind |-> "missing"], [kind |-> "ok", text |-> Hello]}
ThreadEvents ==
    {[src_path |-> "/d/f1", is_directory |-> FALSE],
     [src_path |-> "/d/./f2", is_directory |-> FALSE],
     [src_path |-> "/d/f1", is_directory |-> TRUE]}
ThreadReads ==
    {[kind |-> "ok", text |-> <<>>], [kind |-> "ok", text |-> Hello],
     [kind |-> "fail", cause |-> <<"E", "1">>]}

\* The entry that Observer.stop() puts in the queue to wake the thread.
stop_event == [src_path |-> "stop", is_directory |-> FALSE]

\* Executions of _handle_event that can be under way; the observer thread
\* runs the handler itself, so it uses one.
Slots == {1, 2}
Running(s) == hpc[s] \in {"read", "cmp", "diff"}
FreeSlot == Min({s \in Slots : hpc[s] = "free"})

\* Variant of can_dispatch: the observer hands the event over and takes the
\* next one without waiting for the handler to return.
can_dispatch_concurrently == \E s \in Slots : hpc[s] = "free"

\* The observer thread is in its loop, not inside a handler.
can_dispatch == \A s \in Slots : hpc[s] = "free"

\* Variant of lock_held: stop() does not wait for the handler.
lock_never_held == FALSE

\* The observer holds its lock while it runs the handler; stop() needs the
\* lock to unschedule the watcher.
lock_held == \E s \in Slots : Running(s)

\* Line 54 as seen from the threads: the call and its arguments; what the
\* call renders is the subject of SpecDiff.
print_diff_call(path, old, new) == [path |-> path, old |-> old, new |-> new]

\* _handle_event applied in one piece to a history and an emitted list.
serial_handle(st, event, res) ==
    IF ignored(event)
    THEN st
    ELSE LET path == resolve(event.src_path)
             old  == last_snapshot(st.files_to_track[path])
             new  == read_content(res)
         IN  IF changed(new, old)
             THEN [files_to_track |-> record(st.files_to_track, path, new),
                   emitted |-> Append(st.emitted,
                                      print_diff_call(path, old, new))]
             ELSE st

\* The process is running: once main() returns, the daemon threads are gone.
Alive == pc = "watching" /\ mpc # "exit"

\* Lines 98-110: the watcher is constructed and scheduled, the observer
\* thread started.
main_start ==
    /\ pc = "new"
    /\ pc' = "watching"
    /\ files_to_track' =
         [p \in Files |-> deque_append(<<>>, seed_content(startup[p]),
                                       history + 1)]
    /\ serial' = [files_to_track |-> files_to_track', emitted |-> <<>>]
    /\ mpc' = "loop"
    /\ opc' = "check"
    /\ handlers' = TRUE
    /\ hpc' = [s \in Slots |-> "free"]
    /\ hcur' = [s \in Slots |-> NoEvent]
    /\ hold' = [s \in Slots |-> <<>>]
    /\ hnew' = [s \in Slots |-> <<>>]
    /\ UNCHANGED <<history, startup, emitted, nreads, nevents, ev, reads,
                   queue, stopped>>
    /\ UNCHANGED diffVars
    /\ UNCHANGED pairVars

\* The emitter thread of the scheduled folder queues an event.
queue_event ==
    \E event \in ThreadEvents :
        /\ Alive
        /\ handlers
        /\ nevents < MaxEvents
        /\ nevents' = nevents + 1
        /\ queue' = Append(queue, event)
        /\ UNCHANGED <<pc, history, startup, files_to_track, emitted, nreads,
                       ev, reads>>
        /\ UNCHANGED <<mpc, opc, stopped, handlers, hpc, hcur, hold, hnew,
                       serial>>
        /\ UNCHANGED diffVars
        /\ UNCHANGED pairVars

\* The observer thread tests its stop flag at the top of its loop.
observer_check ==
    /\ Alive
    /\ opc = "check"
    /\ can_dispatch
    /\ opc' = IF stopped THEN "done" ELSE "get"
    /\ UNCHANGED watcherVars
    /\ UNCHANGED <<mpc, queue, stopped, handlers, hpc, hcur, hold, hnew,
                   serial>>
    /\ UNCHANGED diffVars
    /\ UNCHANGED pairVars

\* The observer thread takes the next entry of the queue (it blocks while the
\* queue is empty); the stop entry sends it back to the top of the loop.
observer_get ==
    /\ Alive
    /\ opc = "get"
    /\ can_dispatch
    /\ queue # <<>>
    /\ queue' = Tail(queue)
    /\ opc' = "check"
    /\ IF Head(queue) = stop_event
       THEN UNCHANGED <<hpc, hcur>>
       ELSE /\ hpc' = [hpc EXCEPT ![FreeSlot] = "got"]
            /\ hcur' = [hcur EXCEPT ![FreeSlot] = Head(queue)]
    /\ UNCHANGED watcherVars
    /\ UNCHANGED <<mpc, stopped, handlers, hold, hnew, serial>>
    /\ UNCHANGED diffVars
    /\ UNCHANGED pairVars

\* The handler is called if the watcher is still scheduled; lines 40-46.
handle_event_enter(s) ==
    /\ Alive
    /\ hpc[s] = "got"
    /\ IF handlers /\ ~ignored(hcur[s])
       THEN /\ ev' = hcur[s]
            /\ hold' = [hold EXCEPT
                          ![s] = last_snapshot(
                                   files_to_track[resolve(hcur[s].src_path)])]
            /\ hpc' = [hpc EXCEPT ![s] = "read"]
       ELSE /\ hpc' = [hpc EXCEPT ![s] = "free"]
            /\ UNCHANGED <<ev, hold>>
    /\ UNCHANGED <<pc, history, startup, files_to_track, emitted, nreads,
                   nevents, reads>>
    /\ UNCHANGED <<mpc, opc, queue, stopped, handlers, hcur, hnew, serial>>
    /\ UNCHANGED diffVars
    /\ UNCHANGED pairVars

\* Lines 47-50
handle_event_read(s) ==
    \E res \in ThreadReads :
        /\ Alive
        /\ hpc[s] = "read"
        /\ hnew' = [hnew EXCEPT ![s] = read_content(res)]
        /\ serial' = serial_handle(serial, hcur[s], res)
        /\ hpc' = [hpc EXCEPT ![s] = "cmp"]
        /\ UNCHANGED watcherVars
        /\ UNCHANGED <<mpc, opc, queue, stopped, handlers, hcur, hold>>
        /\ UNCHANGED diffVars
        /\ UNCHANGED pairVars

\* Lines 52-53
handle_event_record(s) ==
    /\ Alive
    /\ hpc[s] = "cmp"
    /\ IF changed(hnew[s], hold[s])
       THEN /\ files_to_track' =
                 record(files_to_track, resolve(hcur[s].src_path), hnew[s])
            /\ hpc' = [hpc EXCEPT ![s] = "diff"]
       ELSE /\ hpc' = [hpc EXCEPT ![s] = "free"]
            /\ UNCHANGED files_to_track
    /\ UNCHANGED <<pc, history, startup, emitted, nreads, nevents, ev, reads>>
    /\ UNCHANGED <<mpc, opc, queue, stopped, handlers, hcur, hold, hnew,
                   serial>>
    /\ UNCHANGED diffVars
    /\ UNCHANGED pairVars

\* Line 54
handle_event_print_diff(s) ==
    /\ Alive
    /\ hpc[s] = "diff"
    /\ emitted' = Append(emitted, print_diff_call(resolve(hcur[s].src_path),
                                                  hold[s], hnew[s]))
    /\ hpc' = [hpc EXCEPT ![s] = "free"]
    /\ UNCHANGED <<pc, history, startup, files_to_track, nreads, nevents, ev,
                   reads>>
    /\ UNCHANGED <<mpc, opc, queue, stopped, handlers, hcur, hold, hnew,
                   serial>>
    /\ UNCHANGED diffVars
    /\ UNCHANGED pairVars

\* _handle_event, one step of it.
handle_event_step ==
    \E s \in Slots :
        \/ handle_event_enter(s)
        \/ handle_event_read(s)
        \/ handle_event_record(s)
        \/ handle_event_print_diff(s)

MainGoes(from, to) ==
    /\ Alive
    /\ mpc = from
    /\ mpc' = to
    /\ UNCHANGED watcherVars
    /\ UNCHANGED <<opc, hpc, hcur, hold, hnew, serial>>
    /\ UNCHANGED diffVars
    /\ UNCHANGED pairVars

\* Lines 113-116: the interrupt is raised in the main thread while it sleeps.
KeyboardInterrupt ==
    /\ MainGoes("loop", "caught")
    /\ UNCHANGED <<queue, stopped, handlers>>

\* Line 117
print_stopping ==
    /\ MainGoes("caught", "stop")
    /\ UNCHANGED <<queue, stopped, handlers>>

\* Line 118, observer.stop(): the stop flag is set, ...
stop_set_flag ==
    /\ MainGoes("stop", "unschedule")
    /\ stopped' = TRUE
    /\ UNCHANGED <<queue, handlers>>

\* ... the watcher is unscheduled and its emitter stopped, under the lock, ...
stop_unschedule_all ==
    /\ MainGoes("unschedule", "wake")
    /\ ~lock_held
    /\ handlers' = FALSE
    /\ UNCHANGED <<queue, stopped>>

\* ... and the stop entry is queued.
stop_wake ==
    /\ MainGoes("wake", "join")
    /\ queue' = Append(queue, stop_event)
    /\ UNCHANGED <<stopped, handlers>>

\* Line 119, observer.join(), and the return of main().
join ==
    /\ opc = "done"
    /\ MainGoes("join", "exit")
    /\ UNCHANGED <<queue, stopped, handlers>>

main_step ==
    \/ main_start
    \/ print_stopping
    \/ stop_set_flag
    \/ stop_unschedule_all
    \/ stop_wake
    \/ join

observer_step == observer_check \/ observer_get \/ handle_event_step

ThreadInit ==
    /\ pc = "new"
    /\ history = DefaultHistory
    /\ startup \in [Files -> ThreadStartup]
    /\ files_to_track = <<>>
    /\ emitted = <<>>
    /\ nreads = 0
    /\ nevents = 0
    /\ ev = NoEvent
    /\ reads = [p \in Files |-> <<>>]
    /\ dpc = "off" /\ dold = <<>> /\ dnew = <<>> /\ dout = <<>>
    /\ PairOff
    /\ ThreadsOff

ThreadNext ==
    \/ main_start
    \/ queue_event
    \/ observer_check
    \/ observer_get
    \/ handle_event_step
    \/ KeyboardInterrupt
    \/ print_stopping
    \/ stop_set_flag
    \/ stop_unschedule_all
    \/ stop_wake
    \/ join

SpecThreads == ThreadInit /\ [][ThreadNext]_vars

\* Both threads keep running while they can take a step: the main thread
\* between the interrupt and its return, the observer thread in its loop and
\* in the handler (a read of a file returns). Nothing is assumed of the
\* interrupt and of the arrival of events.
SpecThreadsFair ==
    /\ ThreadInit
    /\ [][ThreadNext]_vars
    /\ WF_vars(main_step)
    /\ WF_vars(observer_step)

\* ================================================================ claims
\* A step that delivers one event, and one that delivers a non-directory event
\* whose resolved path is the tracked path p.
Delivered == nevents' = nevents + 1
HandledStep(p) ==
    /\ Delivered
    /\ ~ev'.is_directory
    /\ resolve(ev'.src_path) = p
    /\ p \in DOMAIN files_to_track
\* The result of the read that a HandledStep(p) made.
ReadNow(p) == Last(reads'[p])
HasRead(p) == reads'[p] = Append(reads[p], ReadNow(p))

\* The change events emitted so far for path p, in order.
RECURSIVE EventsOf(_, _)
EventsOf(es, p) ==
    IF es = <<>> THEN <<>>
    ELSE IF Head(es).path = p THEN <<Head(es)>> \o EventsOf(Tail(es), p)
    ELSE EventsOf(Tail(es), p)

Range(f) == {f[x] : x \in DOMAIN f}
F1 == "/d/f1"
F2 == "/d/f2"

\* C1: handling a non-directory event for a tracked path emits a change event
\* if and only if the content read (or the error placeholder) differs from
\* the last snapshot of that path; the event carries exactly (path, the last
\* snapshot before the event, the content read), and that content becomes the
\* newest snapshot of the path in the same step.
C1_EmitIffChanged ==
    [][\A p \in Files : HandledStep(p) =>
          LET old == Last(files_to_track[p])
              new == read_content(ReadNow(p))
          IN  /\ HasRead(p)
              /\ (emitted' # emitted) <=> (new # old)
              /\ new # old =>
                   /\ Len(emitted') = Len(emitted) + 1
                   /\ SubSeq(emitted', 1, Len(emitted)) = emitted
                   /\ Last(emitted').path = p
                   /\ Last(emitted').old = old
                   /\ Last(emitted').new = new
                   /\ files_to_track'[p] \in
                        {Append(files_to_track[p], new),
                         Tail(Append(files_to_track[p], new))}
      ]_vars

\* One path has been read twice with the same content: the first read was a
\* change and was emitted, the second was not.
C1_Witness ==
    \E p \in Files :
        /\ Len(reads[p]) = 2
        /\ reads[p][1] = reads[p][2]
        /\ Len(emitted) = 1
        /\ emitted[1].path = p
        /\ emitted[1].new = read_content(reads[p][1])
        /\ emitted[1].old = seed_content(startup[p])
        /\ Last(files_to_track[p]) = emitted[1].new

\* C2: if two consecutive handled events of one tracked path read identical
\* content, the second emits no change event and leaves the history of that
\* path unchanged.
C2_RepeatedReadIsNoOp ==
    [][\A p \in Files :
          (/\ HandledStep(p)
           /\ HasRead(p)
           /\ reads[p] # <<>>
           /\ read_content(ReadNow(p)) = read_content(Last(reads[p])))
          => /\ emitted' = emitted
             /\ files_to_track'[p] = files_to_track[p]
      ]_vars

\* Two failed reads in a row on one path: one change event (to the
\* placeholder), and the placeholder stored once.
C2_Witness ==
    \E p \in Files :
        /\ Len(reads[p]) = 2
        /\ reads[p][1].kind = "fail"
        /\ reads[p][2] = reads[p][1]
        /\ Len(EventsOf(emitted, p)) = 1
        /\ Len(files_to_track[p]) = IF history = 0 THEN 1 ELSE 2

\* C3: after construction and after any sequence of events, every tracked
\* path stores at least 1 and at most history+1 snapshots.
C3_HistoryBounded ==
    /\ pc = "watching" => DOMAIN files_to_track = Files
    /\ \A p \in DOMAIN files_to_track :
          /\ 1 <= Len(files_to_track[p])
          /\ Len(files_to_track[p]) <= history + 1

\* A path that has seen more changes than its history holds and is full.
C3_Witness ==
    \E p \in Files :
        /\ pc = "watching"
        /\ Len(EventsOf(emitted, p)) > history + 1
        /\ Len(files_to_track[p]) = history + 1

\* The snapshots observed for p: the seed, then the new content of each of
\* its change events.
Observed(p) ==
    <<seed_content(startup[p])>>
    \o [n \in 1..Len(EventsOf(emitted, p)) |-> EventsOf(emitted, p)[n].new]

PairwiseDistinct(sq) ==
    \A m, n \in 1..Len(sq) : m # n => sq[m] # sq[n]

\* C4: snapshots are evicted oldest first: after n detected changes a path
\* holds exactly the last min(n+1, history+1) observed snapshots in order; after
\* history+2 pairwise distinct changes neither the seed nor the first changed
\* snapshot is stored.
C4_OldestEvictedFirst ==
    \A p \in DOMAIN files_to_track :
        LET obs  == Observed(p)
            n    == Len(obs) - 1
            keep == IF n + 1 < history + 1 THEN n + 1 ELSE history + 1
        IN  /\ files_to_track[p] = SubSeq(obs, Len(obs) - keep + 1, Len(obs))
            /\ (n >= history + 2 /\ PairwiseDistinct(obs)) =>
                  /\ obs[1] \notin Range(files_to_track[p])
                  /\ obs[2] \notin Range(files_to_track[p])

\* history = 1 and three pairwise distinct changes on one path: the two
\* newest snapshots remain.
C4_Witness ==
    \E p \in Files :
        /\ pc = "watching"
        /\ history = 1
        /\ Len(Observed(p)) = history + 3
        /\ PairwiseDistinct(Observed(p))
        /\ files_to_track[p] = <<Observed(p)[3], Observed(p)[4]>>

\* ------------------------------------------------------------- print_diff
\* The text a column shows once the two-character marker of each of its
\* lines is taken off and the lines are put together again.
ColumnLines(col) == [n \in 1..Len(col) |-> TextOf(col[n])]
ColumnText(col) == JoinNL(ColumnLines(col))

\* C5: for every pair of texts A != B given to print_diff, the lines of the
\* Before column put together reconstruct A exactly, and the lines of the After
\* column reconstruct B exactly.
C5_ColumnsReconstructTexts ==
    dpc = "shown" =>
        /\ ColumnText(dout.left) = dold
        /\ ColumnText(dout.right) = dnew

\* What does hold of print_diff: the columns reconstruct the line sequences.
C5_ColumnsReconstructLines ==
    dpc = "shown" =>
        /\ ColumnLines(dout.left) = splitlines(dold)
        /\ ColumnLines(dout.right) = splitlines(dnew)

\* The diff lines with the branch each one takes, and the same without the
\* lines the loop skips.
DiffLine(k, t) == [kind |-> k, text |-> t]
Classified(diff) ==
    [n \in 1..Len(diff) |-> DiffLine(Kind(diff[n]), TextOf(diff[n]))]
IsShown(dl) == dl.kind # "meta"
Shown(diff) == SelectSeq(Classified(diff), IsShown)
AllOfKind(k, lines) == [n \in 1..Len(lines) |-> DiffLine(k, lines[n])]

\* The line sequences a and b have the same length and differ at position i
\* only.
DiffersOnlyAt(a, b, i) ==
    /\ Len(a) = Len(b)
    /\ i \in 1..Len(a)
    /\ a[i] # b[i]
    /\ \A j \in 1..Len(a) : j # i => a[j] = b[j]

\* Leading context, the old line removed, the new line added, trailing
\* context.
OneLineReplaced(a, b, i) ==
    AllOfKind("context", SubSeq(a, 1, i - 1))
    \o <<DiffLine("removed", a[i]), DiffLine("added", b[i])>>
    \o AllOfKind("context", SubSeq(a, i + 1, Len(a)))

\* C11: when the old and the new text split into line sequences that differ
\* in exactly one line at the same position, the classified diff (hint lines
\* aside) is the common leading lines as context, the old line as removed, the
\* new line as added, the common trailing lines as context, and nothing else.
C11_OneLineReplaced ==
    dpc = "shown" =>
        \A i \in 1..Len(splitlines(dold)) :
            DiffersOnlyAt(splitlines(dold), splitlines(dnew), i)
                => Shown(dout.diff)
                     = OneLineReplaced(splitlines(dold), splitlines(dnew), i)

\* C11, amended: the same, for a replaced line that does not occur among the
\* lines of the new text and a replacing line that does not occur among the
\* lines of the old text.
C11_OneFreshLineReplaced ==
    dpc = "shown" =>
        \A i \in 1..Len(splitlines(dold)) :
            (/\ DiffersOnlyAt(splitlines(dold), splitlines(dnew), i)
             /\ splitlines(dold)[i] \notin Range(splitlines(dnew))
             /\ splitlines(dnew)[i] \notin Range(splitlines(dold)))
                => Shown(dout.diff)
                     = OneLineReplaced(splitlines(dold), splitlines(dnew), i)

C11_Witness ==
    /\ dpc = "shown"
    /\ dold = JoinNL(<<(<<"a">>), <<"a", "b", "c", "d">>, <<"a">>>>)
    /\ dnew = JoinNL(<<(<<"a">>), <<"a", "b", "c", "x">>, <<"a">>>>)
    /\ Shown(dout.diff)
         = <<DiffLine("context", <<"a">>),
             DiffLine("removed", <<"a", "b", "c", "d">>),
             DiffLine("added", <<"a", "b", "c", "x">>),
             DiffLine("context", <<"a">>)>>

\* C14: no hint ("? ") line of the diff appears in the Before or the After
\* column: the Before column is the context and removed lines of the diff and
\* the After column its context and added lines, each in the order of the diff.
IsBefore(line) == Kind(line) \in {"context", "removed"}
IsAfter(line) == Kind(line) \in {"context", "added"}
C14_NoHintInColumns ==
    dpc = "shown" =>
        /\ \A n \in 1..Len(dout.left) : Kind(dout.left[n]) \in {"context", "removed"}
        /\ \A n \in 1..Len(dout.right) : Kind(dout.right[n]) \in {"context", "added"}
        /\ dout.left = SelectSeq(dout.diff, IsBefore)
        /\ dout.right = SelectSeq(dout.diff, IsAfter)

C14_Witness ==
    /\ dpc = "shown"
    /\ \E n \in 1..Len(dout.diff) : Kind(dout.diff[n]) = "meta"
    /\ \E n \in 1..Len(dout.diff) : Kind(dout.diff[n]) = "context"
    /\ dout.left = SelectSeq(dout.diff, IsBefore)
    /\ Len(dout.left) < Len(dout.diff)

\* C15: when the old text is empty and the new text is not, the classified
\* diff is one added line per line of the new text, in order, and nothing else;
\* when the new text is empty and the old text is not, it is one removed line
\* per line of the old text, in order, and nothing else.
C15_EmptySide ==
    dpc = "shown" =>
        /\ dold = <<>> =>
               Classified(dout.diff) = AllOfKind("added", splitlines(dnew))
        /\ dnew = <<>> =>
               Classified(dout.diff) = AllOfKind("removed", splitlines(dold))

C15_Witness ==
    /\ dpc = "shown"
    /\ dold = <<>>
    /\ Len(splitlines(dnew)) = 2
    /\ Classified(dout.diff) = AllOfKind("added", splitlines(dnew))
    /\ dout.left = <<>>

\* C19: every pair of contents that differ (new != old) renders a diff with at
\* least one removed or added line.
C19_DiffShowsAChange ==
    dpc = "shown" =>
        \E n \in 1..Len(dout.diff) : Kind(dout.diff[n]) \in {"removed", "added"}

\* ---------------------------------------------------------- read failures
\* C6: when one handled read of a path fails and the next handled read of
\* that path succeeds with content other than the placeholder, the second
\* event emits exactly one change event, from the placeholder to the content.
C6_ErrorThenContent ==
    [][\A p \in Files :
          (/\ HandledStep(p)
           /\ HasRead(p)
           /\ reads[p] # <<>>
           /\ Last(reads[p]).kind = "fail"
           /\ ReadNow(p).kind = "ok"
           /\ ReadNow(p).text # Placeholder(Last(reads[p]).cause))
          => /\ Len(emitted') = Len(emitted) + 1
             /\ SubSeq(emitted', 1, Len(emitted)) = emitted
             /\ Last(emitted').path = p
             /\ Last(emitted').old = Placeholder(Last(reads[p]).cause)
             /\ Last(emitted').new = ReadNow(p).text
      ]_vars

\* A failed read followed by a read of "hello" on one path.
C6_Witness ==
    \E p \in Files :
        /\ Len(reads[p]) = 2
        /\ reads[p][1].kind = "fail"
        /\ reads[p][2] = [kind |-> "ok", text |-> Hello]
        /\ Last(emitted).path = p
        /\ Last(emitted).old = Placeholder(reads[p][1].cause)
        /\ Last(emitted).new = Hello

\* C7: no read failure of a tracked file, in __init__ or in _handle_event,
\* lets an exception leave the watcher: the placeholder is substituted.
C7_NoReadFailureCrashes ==
    /\ pc # "crashed"
    /\ \A p \in DOMAIN files_to_track :
          (reads[p] # <<>> /\ Last(reads[p]).kind = "fail")
          => Last(files_to_track[p]) = Placeholder(Last(reads[p]).cause)

\* -------------------------------------------------- file missing at startup
RealContent(res) == res.kind = "ok" /\ res.text # <<>>
FirstRealRead(p) ==
    /\ HandledStep(p)
    /\ HasRead(p)
    /\ RealContent(ReadNow(p))
    /\ \A n \in 1..Len(reads[p]) : ~RealContent(reads[p][n])
EmitsFromEmpty(p) ==
    /\ Len(emitted') = Len(emitted) + 1
    /\ SubSeq(emitted', 1, Len(emitted)) = emitted
    /\ Last(emitted').path = p
    /\ Last(emitted').old = <<>>
    /\ Last(emitted').new = ReadNow(p).text
    /\ ReadNow(p).text = Hello =>
          /\ Last(emitted').left = <<>>
          /\ Last(emitted').right = <<(<<"+", " ">> \o Hello)>>
SeededEmpty(p) ==
    (pc = "watching" /\ startup[p].kind = "missing" /\ reads[p] = <<>>)
    => files_to_track[p] = <<(<<>>)>>

\* C8 as claimed: a file missing at construction is seeded with one empty
\* snapshot, and the first later handled event of that path that reads real
\* content emits exactly one change event from "" to the content read (for
\* "hello": one added line "hello", nothing removed, no context).
C8_FirstContentFromEmpty ==
    [][\A p \in Files :
          /\ SeededEmpty(p)
          /\ (startup[p].kind = "missing" /\ FirstRealRead(p)) => EmitsFromEmpty(p)
      ]_vars

\* C8 as amended: the same, provided no handled event of that path had a
\* failed read before.
C8_FirstContentFromEmptyNoFailure ==
    [][\A p \in Files :
          /\ SeededEmpty(p)
          /\ (/\ startup[p].kind = "missing"
              /\ FirstRealRead(p)
              /\ \A n \in 1..Len(reads[p]) : reads[p][n].kind = "ok")
             => EmitsFromEmpty(p)
      ]_vars

\* A file missing at startup whose first handled event reads "hello".
C8_Witness ==
    \E p \in Files :
        /\ startup[p].kind = "missing"
        /\ reads[p] = <<[kind |-> "ok", text |-> Hello]>>
        /\ EventsOf(emitted, p) = <<print_diff(p, <<>>, Hello)>>
        /\ Last(emitted).right = <<(<<"+", " ">> \o Hello)>>

\* ------------------------------------------------------------------ frames
\* C9: with two tracked files in one directory (one FolderWatcher), handling
\* an event of one never emits a change event for the other and leaves the
\* other's history unchanged.
C9_OtherFileUntouched ==
    [][\A p, q \in Files :
          (p # q /\ HandledStep(p))
          => /\ q \in DOMAIN files_to_track
             /\ files_to_track'[q] = files_to_track[q]
             /\ EventsOf(emitted', q) = EventsOf(emitted, q)
      ]_vars

\* Both files have changed, f2 first, then f1; f2 still holds what it held.
C9_Witness ==
    /\ Len(emitted) = 2
    /\ emitted[1].path = F2
    /\ emitted[2].path = F1
    /\ Last(files_to_track[F2]) = emitted[1].new
    /\ Last(files_to_track[F1]) = emitted[2].new
    /\ emitted[1].new # emitted[2].new

\* C10: an event with the is-directory flag set, or whose resolved path is
\* not one of the tracked paths, is ignored: no file is read, no change event
\* is emitted, no error is raised, every history is unchanged.
C10_IgnoredEvents ==
    [][(Delivered /\ (ev'.is_directory \/ resolve(ev'.src_path) \notin Files))
          => /\ nreads' = nreads
             /\ reads' = reads
             /\ emitted' = emitted
             /\ files_to_track' = files_to_track
             /\ pc' = pc
      ]_vars

\* A directory event carrying a tracked path, after a handled change, and
\* nothing read for it.
C10_Witness ==
    /\ pc = "watching"
    /\ nevents = 2
    /\ ev.is_directory
    /\ resolve(ev.src_path) \in Files
    /\ Len(emitted) = 1
    /\ Len(reads[F1]) + Len(reads[F2]) = 1

\* ------------------------------------------------- histories and chains
\* C13: after every handled non-directory event for a tracked path, whether
\* or not it was a change, the last snapshot of that path is the content that
\* the read of this event observed (the text, or the error placeholder).
C13_LastIsObserved ==
    [][\A p \in Files : HandledStep(p) =>
          /\ HasRead(p)
          /\ Last(files_to_track'[p]) = read_content(ReadNow(p))
      ]_vars

\* A path whose last three reads were: a text, a failure, the same failure
\* (no change); the placeholder is its last snapshot.
C13_Witness ==
    \E p \in Files :
        /\ Len(reads[p]) = 3
        /\ reads[p][1].kind = "ok"
        /\ reads[p][2].kind = "fail"
        /\ reads[p][3] = reads[p][2]
        /\ Len(EventsOf(emitted, p)) <= 2
        /\ Last(files_to_track[p]) = Placeholder(reads[p][3].cause)

\* C17: in every reachable state no two adjacent snapshots of a path are
\* equal.
C17_AdjacentSnapshotsDiffer ==
    \A p \in DOMAIN files_to_track :
        \A n \in 1..(Len(files_to_track[p]) - 1) :
            files_to_track[p][n] # files_to_track[p][n + 1]

\* A path that stores two snapshots after it was read back to a content it
\* had before.
C17_Witness ==
    \E p \in DOMAIN files_to_track :
        /\ Len(files_to_track[p]) = 2
        /\ Len(reads[p]) = 3
        /\ reads[p][1] = reads[p][3]
        /\ reads[p][1] # reads[p][2]
        /\ files_to_track[p][1] # files_to_track[p][2]

\* C18: the change events of one path form a chain: the previous content of
\* the first is the seed snapshot, the previous content of every later one is
\* the new content of the one before it, for every history >= 0.
C18_EventsChain ==
    \A p \in DOMAIN files_to_track :
        LET es == EventsOf(emitted, p)
        IN  /\ es # <<>> => es[1].old = seed_content(startup[p])
            /\ \A n \in 2..Len(es) : es[n].old = es[n - 1].new

\* Three chained change events of one path, with history > 0.
C18_Witness ==
    \E p \in Files :
        LET es == EventsOf(emitted, p)
        IN  /\ history > 0
            /\ Len(es) = 3
            /\ es[1].old = seed_content(startup[p])
            /\ es[2].old = es[1].new
            /\ es[3].old = es[2].new

\* C20: two watchers with different history arguments that get the same
\* events and the same file contents emit the same sequence of (path,
\* previous, new) change events and agree on the last snapshot of every path;
\* history only decides how many older snapshots are kept: the shorter history
\* is the tail of the longer one.
ChangeEvent(e) == <<e.path, e.old, e.new>>
ChangeEvents(es) == [n \in 1..Len(es) |-> ChangeEvent(es[n])]
TailOf(d, n) == SubSeq(d, Len(d) - Min({n, Len(d)}) + 1, Len(d))
C20_HistoryIndependent ==
    /\ ChangeEvents(emitted) = ChangeEvents(emitted2)
    /\ DOMAIN files_to_track = DOMAIN files_to_track2
    /\ \A p \in DOMAIN files_to_track :
          /\ Last(files_to_track[p]) = Last(files_to_track2[p])
          /\ files_to_track[p] = TailOf(files_to_track2[p], history + 1)

\* After three changes of one path the watcher with history 0 keeps one
\* snapshot and the other one two, and both have emitted the same three events.
C20_Witness ==
    \E p \in DOMAIN files_to_track :
        /\ history = 0
        /\ history2 = 1
        /\ Len(EventsOf(emitted, p)) = 3
        /\ ChangeEvents(emitted) = ChangeEvents(emitted2)
        /\ Len(files_to_track[p]) = 1
        /\ Len(files_to_track2[p]) = 2

\* ------------------------------------------------------------- threads
\* C12: the steps of _handle_event of two events for the same path never
\* interleave, and whenever no handler is under way the histories and the
\* emitted change events are those of the events handled one at a time.
C12_HandlingIsSerial ==
    pc = "watching" =>
        /\ \A s, t \in Slots :
              (s # t /\ Running(s) /\ Running(t))
                  => resolve(hcur[s].src_path) # resolve(hcur[t].src_path)
        /\ (\A s \in Slots : ~Running(s)) =>
              /\ files_to_track = serial.files_to_track
              /\ emitted = serial.emitted

\* An event of a path waits in the queue while the handler of an earlier
\* event of the same path is between its append and its print_diff, after a
\* first change of that path was emitted.
C12_Witness ==
    /\ pc = "watching"
    /\ hpc[1] = "diff"
    /\ queue # <<>>
    /\ Head(queue) \in ThreadEvents
    /\ ~Head(queue).is_directory
    /\ resolve(Head(queue).src_path) = resolve(hcur[1].src_path)
    /\ Len(emitted) = 1
    /\ emitted[1].path = resolve(hcur[1].src_path)

\* C16: after the interrupt has reached the main loop the observer is
\* stopped (flag set, watcher unscheduled); a handler that has appended goes on
\* to its print_diff; once the observer is stopped no handler is under way and
\* neither a history nor the emitted list changes any more; and main() returns.
Interrupted == mpc \in {"caught", "stop", "unschedule", "wake", "join", "exit"}
ObserverStopped == stopped /\ ~handlers
Appended == pc = "watching" /\ \E s \in Slots : hpc[s] = "diff"
C16_InterruptStops ==
    /\ Interrupted ~> ObserverStopped
    /\ Interrupted ~> (mpc = "exit")
    /\ Appended ~> ~Appended
    /\ [](ObserverStopped => \A s \in Slots : ~Running(s))
    /\ [][ObserverStopped => /\ files_to_track' = files_to_track
                             /\ emitted' = emitted]_vars
    /\ [](mpc = "exit" => opc = "done" /\ \A s \in Slots : hpc[s] = "free")

\* main() has returned after an interrupt that came while a handler was
\* between its append and its print_diff: the change was emitted, and an event
\* that was still queued was never handled.
C16_Witness ==
    /\ mpc = "exit"
    /\ Len(emitted) = 1
    /\ nevents = 2
    /\ Len(queue) = 2
    /\ queue[1] \in ThreadEvents
    /\ queue[2] = stop_event
    /\ serial.emitted = emitted

====
